---- MODULE Spec2Model ----
(***************************************************************************)
(* CollectMacrosPreprocessorCallbacks (clangrefactoringbackend): the       *)
(* preprocessor callbacks that collect macro symbols, their occurrences,   *)
(* the used defines and the included files of one translation unit.        *)
(*                                                                         *)
(* The collector's fields are the m_* variables.  The preprocessing        *)
(* front-end that drives the callbacks is the environment: it owns the     *)
(* directive history of every macro name (macroDirectives) and calls one   *)
(* callback per step.  Macro names are sequences of character codes, so    *)
(* that ordering and the "EXPORT" substring test are computed.             *)
(***************************************************************************)
EXTENDS Integers, Sequences, FiniteSets, TLC

VARIABLES
    m_usedDefines,            \* UsedDefines &m_usedDefines (Confirmed, then final)
    m_maybeUsedDefines,       \* UsedDefines m_maybeUsedDefines (Tentative)
    m_symbolEntries,          \* SymbolEntries &m_symbolEntries: the rows of the table
    m_sourceLocationEntries,  \* SourceLocationEntries &: the occurrence log
    m_sourceFiles,            \* FilePathIds &m_sourceFiles
    m_skipInclude,            \* bool m_skipInclude
    macroDirectives,          \* front-end: directive chain of every macro name
    headerGuards,             \* front-end: names flagged isUsedForHeaderGuard at end of file
    phase,                    \* "collecting" until EndOfMainFile has run, then "done"
    events,                   \* number of callbacks delivered before the end of file
    lastInclusion,            \* the file handed to the latest InclusionDirective
    beforeEnd,                \* the two used-define sets as EndOfMainFile found them
    step                      \* position in the scripted end-to-end pass (ScenarioSpec)

vars == <<m_usedDefines, m_maybeUsedDefines, m_symbolEntries, m_sourceLocationEntries,
          m_sourceFiles, m_skipInclude, macroDirectives, headerGuards, phase, events,
          lastInclusion, beforeEnd, step>>

collectorVars == <<m_usedDefines, m_maybeUsedDefines, m_symbolEntries,
                   m_sourceLocationEntries, m_sourceFiles, m_skipInclude>>

----------------------------------------------------------------------------
(* Bounds of the model *)

\* callbacks delivered in one pass of Spec before the end of the main file
MaxEvents == 3

----------------------------------------------------------------------------
(* Inputs *)

NameA == <<65>>
NameB == <<66>>
NameAExport == <<65, 95, 69, 88, 80, 79, 82, 84>>
Names == {NameA, NameB, NameAExport}

\* the literal "EXPORT" of filterOutExports
ExportLiteral == <<69, 88, 80, 79, 82, 84>>

InvalidFilePathId == 0 - 1
Files == {1, 2}
FilePathIds == Files \cup {InvalidFilePathId}

\* a clang::SourceLocation of a macro name token: whether it is a file location
\* (not inside a macro expansion) and the file id filePathId() resolves it to; a
\* location inside a macro expansion has no file entry, so no valid file id
SourceLocations ==
    {loc \in [isFileID : BOOLEAN, fileId : FilePathIds] :
        ~loc.isFileID => loc.fileId = InvalidFilePathId}

NullFile == 0
NoMacroInfo == <<>>
NullDirective == 0
NoUsr == <<>>

----------------------------------------------------------------------------
(* UsedDefine: ordering and equality (useddefines.h) *)

\* lexicographic order of two names
RECURSIVE NameLess(_, _)
NameLess(a, b) ==
    IF b = <<>> THEN FALSE
    ELSE IF a = <<>> THEN TRUE
    ELSE IF Head(a) # Head(b) THEN Head(a) < Head(b)
    ELSE NameLess(Tail(a), Tail(b))

\* operator< of UsedDefine: by name
UsedDefineLess(first, second) == NameLess(first.defineName, second.defineName)

\* operator== of UsedDefine: equal names are the same define, whatever the location
UsedDefineEqual(first, second) == first.defineName = second.defineName

\* defineName.contains(text)
Contains(name, text) ==
    \E i \in 1..(Len(name) - Len(text) + 1) :
        SubSeq(name, i, i + Len(text) - 1) = text

\* FilePathId::isValid
IsValid(fileId) == fileId >= 0

----------------------------------------------------------------------------
(* Standard algorithms used by the collector *)

\* std::lower_bound: index of the first element not less than value, Len + 1 for end()
LowerBound(seq, value) ==
    IF \E i \in 1..Len(seq) : ~UsedDefineLess(seq[i], value)
    THEN CHOOSE i \in 1..Len(seq) :
            /\ ~UsedDefineLess(seq[i], value)
            /\ \A j \in 1..(i - 1) : UsedDefineLess(seq[j], value)
    ELSE Len(seq) + 1

\* std::find: index of the first element equal to value, Len + 1 for end()
Find(seq, value) ==
    IF \E i \in 1..Len(seq) : seq[i] = value
    THEN CHOOSE i \in 1..Len(seq) :
            /\ seq[i] = value
            /\ \A j \in 1..(i - 1) : seq[j] # value
    ELSE Len(seq) + 1

\* vector::insert(position, value)
InsertAt(seq, position, value) ==
    SubSeq(seq, 1, position - 1) \o <<value>> \o SubSeq(seq, position, Len(seq))

\* std::inplace_merge of the sorted ranges first and second: stable, on a tie the
\* element of the first range comes first; nothing is dropped
RECURSIVE InplaceMerge(_, _)
InplaceMerge(first, second) ==
    IF first = <<>> THEN second
    ELSE IF second = <<>> THEN first
    ELSE IF UsedDefineLess(Head(second), Head(first))
         THEN <<Head(second)>> \o InplaceMerge(first, Tail(second))
         ELSE <<Head(first)>> \o InplaceMerge(Tail(first), second)

----------------------------------------------------------------------------
(* The front-end's macro tables *)

\* MacroDirective::getPrevious
GetPrevious(directive) == directive - 1

\* MacroDirective::getMacroInfo of the directive at index directive of a chain
GetMacroInfo(chain, directive) == chain[directive].info

\* whether the name is defined now: its latest directive is a definition
IsDefined(name) ==
    /\ macroDirectives[name] # <<>>
    /\ macroDirectives[name][Len(macroDirectives[name])].kind = "def"

\* the MacroDefinition objects the front-end can hand to a callback for name:
\* macroInfo is getMacroInfo(), localDirective is getLocalDirective().  For a
\* defined macro both come from the latest directive.  For a macro that is not
\* defined there is no macro info, and the local directive is null or, where the
\* name has a history, the latest directive of it.
MacroDefinitions(name) ==
    LET chain == macroDirectives[name] IN
    IF IsDefined(name)
    THEN {[macroInfo |-> chain[Len(chain)].info, localDirective |-> Len(chain)]}
    ELSE {[macroInfo |-> NoMacroInfo, localDirective |-> d] :
              d \in {NullDirective} \cup (IF chain = <<>> THEN {} ELSE {Len(chain)})}

\* Preprocessor::getMacroInfo(&identifierInfo) with isUsedForHeaderGuard, as
\* filterOutHeaderGuards asks at end of file
IsUsedForHeaderGuard(name, guards) == IsDefined(name) /\ name \in guards

\* generateUSR(macroName, sourceLocation): the canonical id, when one is generated
GeneratedUsr(name, loc) == <<name, loc.fileId>>

----------------------------------------------------------------------------
(* The collector's private functions *)

\* mutant: the info of the directive given, without the walk
firstMacroInfo_NoWalk(chain, macroDirective) ==
    IF macroDirective # NullDirective
    THEN GetMacroInfo(chain, macroDirective)
    ELSE NoMacroInfo

\* firstMacroInfo: walk to the earliest directive of the chain and return its info
RECURSIVE EarliestDirective(_)
EarliestDirective(directive) ==
    IF GetPrevious(directive) = NullDirective
    THEN directive
    ELSE EarliestDirective(GetPrevious(directive))

firstMacroInfo(chain, macroDirective) ==
    IF macroDirective # NullDirective
    THEN GetMacroInfo(chain, EarliestDirective(macroDirective))
    ELSE NoMacroInfo

\* mutant: the insert without the duplicate test
addUsedDefineInto_NoDuplicateTest(usedDefine, usedDefines) ==
    InsertAt(usedDefines, LowerBound(usedDefines, usedDefine), usedDefine)

\* mutant: a new entry is put at the end
addUsedDefineInto_InsertsAtEnd(usedDefine, usedDefines) ==
    LET found == LowerBound(usedDefines, usedDefine) IN
    IF found = Len(usedDefines) + 1 \/ ~UsedDefineEqual(usedDefines[found], usedDefine)
    THEN Append(usedDefines, usedDefine)
    ELSE usedDefines

\* static addUsedDefine(UsedDefine &&, UsedDefines &)
addUsedDefineInto(usedDefine, usedDefines) ==
    LET found == LowerBound(usedDefines, usedDefine) IN
    IF found = Len(usedDefines) + 1 \/ ~UsedDefineEqual(usedDefines[found], usedDefine)
    THEN InsertAt(usedDefines, found, usedDefine)
    ELSE usedDefines

\* mutant: the two working sets are taken for each other
addUsedDefine_Swapped(name, loc, macroDefinition) ==
    LET usedDefine == [defineName |-> name, filePathId |-> loc.fileId] IN
    IF macroDefinition.macroInfo = NoMacroInfo
    THEN /\ m_usedDefines' = addUsedDefineInto(usedDefine, m_usedDefines)
         /\ UNCHANGED m_maybeUsedDefines
    ELSE /\ m_maybeUsedDefines' = addUsedDefineInto(usedDefine, m_maybeUsedDefines)
         /\ UNCHANGED m_usedDefines

\* addUsedDefine(macroNameToken, macroDefinition)
addUsedDefine(name, loc, macroDefinition) ==
    LET usedDefine == [defineName |-> name, filePathId |-> loc.fileId] IN
    IF macroDefinition.macroInfo # NoMacroInfo
    THEN /\ m_usedDefines' = addUsedDefineInto(usedDefine, m_usedDefines)
         /\ UNCHANGED m_maybeUsedDefines
    ELSE /\ m_maybeUsedDefines' = addUsedDefineInto(usedDefine, m_maybeUsedDefines)
         /\ UNCHANGED m_usedDefines

\* m_symbolEntries.find(globalId) # end()
HasSymbolEntry(symbolEntries, globalId) ==
    \E entry \in symbolEntries : entry.symbolId = globalId

\* m_symbolEntries.emplace(globalId, usr, macroName): a map keeps the row it has
Emplace(symbolEntries, globalId, usr, macroName) ==
    IF HasSymbolEntry(symbolEntries, globalId)
    THEN symbolEntries
    ELSE symbolEntries \cup {[symbolId |-> globalId, usr |-> usr, symbolName |-> macroName]}

\* mutant: the row is written on every occurrence that has a usr
addMacroAsSymbol_Overwrites(name, loc, macroInfo, symbolType, usr) ==
    IF macroInfo # NoMacroInfo /\ loc.isFileID /\ IsValid(loc.fileId)
    THEN /\ m_symbolEntries' =
                IF usr # NoUsr
                THEN {entry \in m_symbolEntries : entry.symbolId # macroInfo}
                        \cup {[symbolId |-> macroInfo, usr |-> usr, symbolName |-> name]}
                ELSE m_symbolEntries
         /\ m_sourceLocationEntries' =
                Append(m_sourceLocationEntries,
                       [symbolId |-> macroInfo, filePathId |-> loc.fileId,
                        symbolType |-> symbolType])
    ELSE UNCHANGED <<m_symbolEntries, m_sourceLocationEntries>>

\* mutant: the occurrence is logged inside the usr test
addMacroAsSymbol_DropsWithoutUsr(name, loc, macroInfo, symbolType, usr) ==
    IF macroInfo # NoMacroInfo /\ loc.isFileID /\ IsValid(loc.fileId)
    THEN IF HasSymbolEntry(m_symbolEntries, macroInfo) \/ usr # NoUsr
         THEN /\ m_symbolEntries' = IF usr # NoUsr
                                    THEN Emplace(m_symbolEntries, macroInfo, usr, name)
                                    ELSE m_symbolEntries
              /\ m_sourceLocationEntries' =
                     Append(m_sourceLocationEntries,
                            [symbolId |-> macroInfo, filePathId |-> loc.fileId,
                             symbolType |-> symbolType])
         ELSE UNCHANGED <<m_symbolEntries, m_sourceLocationEntries>>
    ELSE UNCHANGED <<m_symbolEntries, m_sourceLocationEntries>>

\* mutant: the generator is asked on the first occurrence of an identity only
addMacroAsSymbol_NoRetry(name, loc, macroInfo, symbolType, usr) ==
    IF macroInfo # NoMacroInfo /\ loc.isFileID /\ IsValid(loc.fileId)
    THEN /\ m_symbolEntries' =
                IF /\ ~HasSymbolEntry(m_symbolEntries, macroInfo)
                   /\ usr # NoUsr
                   /\ \A i \in 1..Len(m_sourceLocationEntries) :
                          m_sourceLocationEntries[i].symbolId # macroInfo
                THEN Emplace(m_symbolEntries, macroInfo, usr, name)
                ELSE m_symbolEntries
         /\ m_sourceLocationEntries' =
                Append(m_sourceLocationEntries,
                       [symbolId |-> macroInfo, filePathId |-> loc.fileId,
                        symbolType |-> symbolType])
    ELSE UNCHANGED <<m_symbolEntries, m_sourceLocationEntries>>

\* mutant: the occurrence is recorded without the test of the macro info
addMacroAsSymbol_NoIdentityTest(name, loc, macroInfo, symbolType, usr) ==
    IF loc.isFileID /\ IsValid(loc.fileId)
    THEN /\ m_symbolEntries' =
                IF ~HasSymbolEntry(m_symbolEntries, macroInfo) /\ usr # NoUsr
                THEN Emplace(m_symbolEntries, macroInfo, usr, name)
                ELSE m_symbolEntries
         /\ m_sourceLocationEntries' =
                Append(m_sourceLocationEntries,
                       [symbolId |-> macroInfo, filePathId |-> loc.fileId,
                        symbolType |-> symbolType])
    ELSE UNCHANGED <<m_symbolEntries, m_sourceLocationEntries>>

\* mutant: an occurrence that is in the log already is not logged again
addMacroAsSymbol_DeduplicatesLog(name, loc, macroInfo, symbolType, usr) ==
    IF macroInfo # NoMacroInfo /\ loc.isFileID /\ IsValid(loc.fileId)
    THEN /\ m_symbolEntries' =
                IF ~HasSymbolEntry(m_symbolEntries, macroInfo) /\ usr # NoUsr
                THEN Emplace(m_symbolEntries, macroInfo, usr, name)
                ELSE m_symbolEntries
         /\ m_sourceLocationEntries' =
                LET entry == [symbolId |-> macroInfo, filePathId |-> loc.fileId,
                              symbolType |-> symbolType]
                IN  IF \E i \in 1..Len(m_sourceLocationEntries) :
                           m_sourceLocationEntries[i] = entry
                    THEN m_sourceLocationEntries
                    ELSE Append(m_sourceLocationEntries, entry)
    ELSE UNCHANGED <<m_symbolEntries, m_sourceLocationEntries>>

\* mutant: the occurrence that inserts the SymbolEntry is not logged
addMacroAsSymbol_EntryWithoutOccurrence(name, loc, macroInfo, symbolType, usr) ==
    IF macroInfo # NoMacroInfo /\ loc.isFileID /\ IsValid(loc.fileId)
    THEN IF ~HasSymbolEntry(m_symbolEntries, macroInfo) /\ usr # NoUsr
         THEN /\ m_symbolEntries' = Emplace(m_symbolEntries, macroInfo, usr, name)
              /\ UNCHANGED m_sourceLocationEntries
         ELSE /\ UNCHANGED m_symbolEntries
              /\ m_sourceLocationEntries' =
                     Append(m_sourceLocationEntries,
                            [symbolId |-> macroInfo, filePathId |-> loc.fileId,
                             symbolType |-> symbolType])
    ELSE UNCHANGED <<m_symbolEntries, m_sourceLocationEntries>>

\* mutant: the location of the name token is not tested
addMacroAsSymbol_NoLocationGuard(name, loc, macroInfo, symbolType, usr) ==
    IF macroInfo # NoMacroInfo
    THEN /\ m_symbolEntries' =
                IF ~HasSymbolEntry(m_symbolEntries, macroInfo) /\ usr # NoUsr
                THEN Emplace(m_symbolEntries, macroInfo, usr, name)
                ELSE m_symbolEntries
         /\ m_sourceLocationEntries' =
                Append(m_sourceLocationEntries,
                       [symbolId |-> macroInfo, filePathId |-> loc.fileId,
                        symbolType |-> symbolType])
    ELSE UNCHANGED <<m_symbolEntries, m_sourceLocationEntries>>

\* addMacroAsSymbol(macroNameToken, macroInfo, symbolType); usr is what generateUSR
\* returns if it is called; toSymbolIndex(macroInfo) is the macro info itself
addMacroAsSymbol(name, loc, macroInfo, symbolType, usr) ==
    IF macroInfo # NoMacroInfo /\ loc.isFileID /\ IsValid(loc.fileId)
    THEN /\ m_symbolEntries' =
                IF ~HasSymbolEntry(m_symbolEntries, macroInfo) /\ usr # NoUsr
                THEN Emplace(m_symbolEntries, macroInfo, usr, name)
                ELSE m_symbolEntries
         /\ m_sourceLocationEntries' =
                Append(m_sourceLocationEntries,
                       [symbolId |-> macroInfo, filePathId |-> loc.fileId,
                        symbolType |-> symbolType])
    ELSE UNCHANGED <<m_symbolEntries, m_sourceLocationEntries>>

\* mutant: the file is appended without looking for it
addSourceFile_NoFind(filePathId) == Append(m_sourceFiles, filePathId)

\* addSourceFile(file)
addSourceFile(filePathId) ==
    LET found == Find(m_sourceFiles, filePathId) IN
    IF found = Len(m_sourceFiles) + 1 \/ m_sourceFiles[found] # filePathId
    THEN InsertAt(m_sourceFiles, found, filePathId)
    ELSE m_sourceFiles

\* mutant: the partition keeps the header guards and erases the others
filterOutHeaderGuards_Inverted(maybeUsedDefines, guards) ==
    SelectSeq(maybeUsedDefines,
              LAMBDA usedDefine : IsUsedForHeaderGuard(usedDefine.defineName, guards))

\* mutant: a name without macro info is taken for a header guard
filterOutHeaderGuards_DropsUnknown(maybeUsedDefines, guards) ==
    SelectSeq(maybeUsedDefines,
              LAMBDA usedDefine : /\ IsDefined(usedDefine.defineName)
                                  /\ usedDefine.defineName \notin guards)

\* filterOutHeaderGuards: stable_partition + erase on m_maybeUsedDefines
filterOutHeaderGuards(maybeUsedDefines, guards) ==
    SelectSeq(maybeUsedDefines,
              LAMBDA usedDefine : ~IsUsedForHeaderGuard(usedDefine.defineName, guards))

\* mutant: the Tentative entries are not appended
mergeUsedDefines_DropsTentative(usedDefines, maybeUsedDefines) == usedDefines

\* mergeUsedDefines: append m_maybeUsedDefines to m_usedDefines, then inplace_merge
mergeUsedDefines(usedDefines, maybeUsedDefines) ==
    InplaceMerge(usedDefines, maybeUsedDefines)

\* mutant: the partition keeps every entry
filterOutExports_KeepsAll(usedDefines) == usedDefines

\* filterOutExports: stable_partition + erase on m_usedDefines
filterOutExports(usedDefines) ==
    SelectSeq(usedDefines,
              LAMBDA usedDefine : ~Contains(usedDefine.defineName, ExportLiteral))


----------------------------------------------------------------------------
(* The callbacks (clang::PPCallbacks overrides) *)

\* mutant: the skip flag is not consulted
InclusionDirective_IgnoresSkip(file) ==
    /\ m_sourceFiles' = IF file # NullFile THEN InsertAt(m_sourceFiles,
                                                         Len(m_sourceFiles) + 1, file)
                        ELSE m_sourceFiles
    /\ m_skipInclude' = FALSE
    /\ UNCHANGED <<m_usedDefines, m_maybeUsedDefines, m_symbolEntries,
                   m_sourceLocationEntries>>

\* mutant: the skip flag is reset only when a file was resolved
InclusionDirective_ResetsOnlyWithFile(file) ==
    /\ m_sourceFiles' = IF ~m_skipInclude /\ file # NullFile
                        THEN addSourceFile(file)
                        ELSE m_sourceFiles
    /\ m_skipInclude' = IF file # NullFile THEN FALSE ELSE m_skipInclude
    /\ UNCHANGED <<m_usedDefines, m_maybeUsedDefines, m_symbolEntries,
                   m_sourceLocationEntries>>

InclusionDirective(file) ==
    /\ m_sourceFiles' = IF ~m_skipInclude /\ file # NullFile
                        THEN addSourceFile(file)
                        ELSE m_sourceFiles
    /\ m_skipInclude' = FALSE
    /\ UNCHANGED <<m_usedDefines, m_maybeUsedDefines, m_symbolEntries,
                   m_sourceLocationEntries>>

\* mutant: the failure is reported to the caller
FileNotFound_ReportsFailure(result) ==
    /\ result = FALSE
    /\ m_skipInclude' = TRUE
    /\ UNCHANGED <<m_usedDefines, m_maybeUsedDefines, m_symbolEntries,
                   m_sourceLocationEntries, m_sourceFiles>>

\* FileNotFound; result is the value it returns to the preprocessor
FileNotFound(result) ==
    /\ result = TRUE
    /\ m_skipInclude' = TRUE
    /\ UNCHANGED <<m_usedDefines, m_maybeUsedDefines, m_symbolEntries,
                   m_sourceLocationEntries, m_sourceFiles>>

Ifndef(name, loc, chain, macroDefinition, usr) ==
    /\ addUsedDefine(name, loc, macroDefinition)
    /\ addMacroAsSymbol(name, loc, firstMacroInfo(chain, macroDefinition.localDirective),
                        "MacroUsage", usr)
    /\ UNCHANGED <<m_sourceFiles, m_skipInclude>>

\* mutant: only a test of a macro that has macro info is indexed
Ifdef_IndexesDefinedOnly(name, loc, chain, macroDefinition, usr) ==
    /\ addUsedDefine(name, loc, macroDefinition)
    /\ addMacroAsSymbol(name, loc,
                        IF macroDefinition.macroInfo # NoMacroInfo
                        THEN firstMacroInfo(chain, macroDefinition.localDirective)
                        ELSE NoMacroInfo,
                        "MacroUsage", usr)
    /\ UNCHANGED <<m_sourceFiles, m_skipInclude>>

Ifdef(name, loc, chain, macroDefinition, usr) ==
    /\ addUsedDefine(name, loc, macroDefinition)
    /\ addMacroAsSymbol(name, loc, firstMacroInfo(chain, macroDefinition.localDirective),
                        "MacroUsage", usr)
    /\ UNCHANGED <<m_sourceFiles, m_skipInclude>>

Defined(name, loc, chain, macroDefinition, usr) ==
    /\ addUsedDefine(name, loc, macroDefinition)
    /\ addMacroAsSymbol(name, loc, firstMacroInfo(chain, macroDefinition.localDirective),
                        "MacroUsage", usr)
    /\ UNCHANGED <<m_sourceFiles, m_skipInclude>>

MacroDefined(name, loc, chain, macroDirective, usr) ==
    /\ addMacroAsSymbol(name, loc, firstMacroInfo(chain, macroDirective),
                        "MacroDefinition", usr)
    /\ UNCHANGED <<m_usedDefines, m_maybeUsedDefines, m_sourceFiles, m_skipInclude>>

\* mutant: the undefinition records a used-define candidate as a test does
MacroUndefined_RecordsUsedDefine(name, loc, chain, macroDefinition, usr) ==
    /\ addUsedDefine(name, loc, macroDefinition)
    /\ addMacroAsSymbol(name, loc, firstMacroInfo(chain, macroDefinition.localDirective),
                        "MacroUndefinition", usr)
    /\ UNCHANGED <<m_sourceFiles, m_skipInclude>>

MacroUndefined(name, loc, chain, macroDefinition, usr) ==
    /\ addMacroAsSymbol(name, loc, firstMacroInfo(chain, macroDefinition.localDirective),
                        "MacroUndefinition", usr)
    /\ UNCHANGED <<m_usedDefines, m_maybeUsedDefines, m_sourceFiles, m_skipInclude>>

MacroExpands(name, loc, chain, macroDefinition, usr) ==
    /\ addUsedDefine(name, loc, macroDefinition)
    /\ addMacroAsSymbol(name, loc, firstMacroInfo(chain, macroDefinition.localDirective),
                        "MacroUsage", usr)
    /\ UNCHANGED <<m_sourceFiles, m_skipInclude>>

\* mutant: the end of the file also resets the skip flag
EndOfMainFile_ClearsSkipInclude(guards) ==
    LET filtered == filterOutHeaderGuards(m_maybeUsedDefines, guards) IN
    /\ m_maybeUsedDefines' = filtered
    /\ m_usedDefines' = filterOutExports(mergeUsedDefines(m_usedDefines, filtered))
    /\ m_skipInclude' = FALSE
    /\ UNCHANGED <<m_symbolEntries, m_sourceLocationEntries, m_sourceFiles>>

\* EndOfMainFile: filterOutHeaderGuards(); mergeUsedDefines(); filterOutExports()
EndOfMainFile(guards) ==
    LET filtered == filterOutHeaderGuards(m_maybeUsedDefines, guards) IN
    /\ m_maybeUsedDefines' = filtered
    /\ m_usedDefines' = filterOutExports(mergeUsedDefines(m_usedDefines, filtered))
    /\ UNCHANGED <<m_symbolEntries, m_sourceLocationEntries, m_sourceFiles, m_skipInclude>>

----------------------------------------------------------------------------
(* The front-end: what it does around each callback *)

\* the canonical ids generateUSR can return for a token: one, or nothing
Usrs(name, loc) == {GeneratedUsr(name, loc), NoUsr}

\* #include whose file was resolved (or not: NullFile)
PPInclusion(file) ==
    /\ InclusionDirective(file)
    /\ lastInclusion' = file
    /\ UNCHANGED <<macroDirectives, headerGuards, phase, beforeEnd>>

\* #include whose lookup failed
PPFileNotFound ==
    /\ \E result \in BOOLEAN : FileNotFound(result)
    /\ UNCHANGED <<macroDirectives, headerGuards, phase, lastInclusion, beforeEnd>>

PPIfndef(name, loc, usr) ==
    /\ \E macroDefinition \in MacroDefinitions(name) :
          Ifndef(name, loc, macroDirectives[name], macroDefinition, usr)
    /\ UNCHANGED <<macroDirectives, headerGuards, phase, lastInclusion, beforeEnd>>

PPIfdef(name, loc, usr) ==
    /\ \E macroDefinition \in MacroDefinitions(name) :
          Ifdef(name, loc, macroDirectives[name], macroDefinition, usr)
    /\ UNCHANGED <<macroDirectives, headerGuards, phase, lastInclusion, beforeEnd>>

PPDefined(name, loc, usr) ==
    /\ \E macroDefinition \in MacroDefinitions(name) :
          Defined(name, loc, macroDirectives[name], macroDefinition, usr)
    /\ UNCHANGED <<macroDirectives, headerGuards, phase, lastInclusion, beforeEnd>>

PPMacroExpands(name, loc, usr) ==
    /\ IsDefined(name)
    /\ \E macroDefinition \in MacroDefinitions(name) :
          MacroExpands(name, loc, macroDirectives[name], macroDefinition, usr)
    /\ UNCHANGED <<macroDirectives, headerGuards, phase, lastInclusion, beforeEnd>>

\* #define: the new definition directive is appended to the name's chain with a
\* macro info of its own, then MacroDefined is called with it
PPDefine(name, loc, usr) ==
    LET chain == Append(macroDirectives[name],
                        [kind |-> "def", info |-> <<name, Len(macroDirectives[name]) + 1>>])
    IN  /\ macroDirectives' = [macroDirectives EXCEPT ![name] = chain]
        /\ MacroDefined(name, loc, chain, Len(chain), usr)
        /\ UNCHANGED <<headerGuards, phase, lastInclusion, beforeEnd>>

\* #undef: MacroUndefined is called with the definition as it is, then an
\* undefinition directive is appended if the macro was defined
PPUndef(name, loc, usr) ==
    /\ \E macroDefinition \in MacroDefinitions(name) :
          MacroUndefined(name, loc, macroDirectives[name], macroDefinition, usr)
    /\ macroDirectives' =
          IF IsDefined(name)
          THEN [macroDirectives EXCEPT
                   ![name] = Append(@, [kind |-> "undef", info |-> NoMacroInfo])]
          ELSE macroDirectives
    /\ UNCHANGED <<headerGuards, phase, lastInclusion, beforeEnd>>

\* end of the main file: the header-guard flags are those of guards
PPEndOfMainFile(guards) ==
    /\ headerGuards' = guards
    /\ phase' = "done"
    /\ beforeEnd' = [usedDefines |-> m_usedDefines, maybeUsedDefines |-> m_maybeUsedDefines]
    /\ EndOfMainFile(guards)
    /\ UNCHANGED <<macroDirectives, lastInclusion>>

----------------------------------------------------------------------------
(* One pass over a translation unit, any events in any order *)

Init ==
    /\ m_usedDefines = <<>>
    /\ m_maybeUsedDefines = <<>>
    /\ m_symbolEntries = {}
    /\ m_sourceLocationEntries = <<>>
    /\ m_sourceFiles = <<>>
    /\ m_skipInclude = FALSE
    /\ macroDirectives = [name \in Names |-> <<>>]
    /\ headerGuards = {}
    /\ phase = "collecting"
    /\ events = 0
    /\ lastInclusion = NullFile
    /\ beforeEnd = <<>>
    /\ step = 0

\* a callback is delivered while the pass is running
Deliver ==
    /\ phase = "collecting"
    /\ events < MaxEvents
    /\ events' = events + 1
    /\ UNCHANGED step

DoInclusion == Deliver /\ \E file \in Files \cup {NullFile} : PPInclusion(file)

DoFileNotFound == Deliver /\ PPFileNotFound

DoIfndef ==
    Deliver /\ \E name \in Names, loc \in SourceLocations :
                   \E usr \in Usrs(name, loc) : PPIfndef(name, loc, usr)

DoIfdef ==
    Deliver /\ \E name \in Names, loc \in SourceLocations :
                   \E usr \in Usrs(name, loc) : PPIfdef(name, loc, usr)

DoDefined ==
    Deliver /\ \E name \in Names, loc \in SourceLocations :
                   \E usr \in Usrs(name, loc) : PPDefined(name, loc, usr)

DoMacroExpands ==
    Deliver /\ \E name \in Names, loc \in SourceLocations :
                   \E usr \in Usrs(name, loc) : PPMacroExpands(name, loc, usr)

DoDefine ==
    Deliver /\ \E name \in Names, loc \in SourceLocations :
                   \E usr \in Usrs(name, loc) : PPDefine(name, loc, usr)

DoUndef ==
    Deliver /\ \E name \in Names, loc \in SourceLocations :
                   \E usr \in Usrs(name, loc) : PPUndef(name, loc, usr)

\* the end of the main file closes the pass; the header-guard flag is a flag of a
\* macro info, so of a name defined at that time
DoEndOfMainFile ==
    /\ phase = "collecting"
    /\ UNCHANGED <<events, step>>
    /\ \E guards \in SUBSET {name \in Names : IsDefined(name)} :
                   PPEndOfMainFile(guards)

Next ==
    \/ DoInclusion
    \/ DoFileNotFound
    \/ DoIfndef
    \/ DoIfdef
    \/ DoDefined
    \/ DoMacroExpands
    \/ DoDefine
    \/ DoUndef
    \/ DoEndOfMainFile

Spec == Init /\ [][Next]_vars


----------------------------------------------------------------------------
(* The end-to-end pass: define A; ifdef A; define B; ifndef B; expand A;     *)
(* include x.h; end of file with B flagged as header guard.  Every name     *)
(* token is at a file location of a valid file and generateUSR succeeds.    *)

ValidLocations == {loc \in SourceLocations : loc.isFileID /\ IsValid(loc.fileId)}

\* all seven events of the scripted pass are delivered
ScenarioDone == step = 7

Scripted(at) ==
    /\ step = at
    /\ step' = at + 1
    /\ phase = "collecting"
    /\ UNCHANGED events

ScenarioDefineA ==
    Scripted(0) /\ \E loc \in ValidLocations :
                       PPDefine(NameA, loc, GeneratedUsr(NameA, loc))

ScenarioIfdefA ==
    Scripted(1) /\ \E loc \in ValidLocations :
                       PPIfdef(NameA, loc, GeneratedUsr(NameA, loc))

ScenarioDefineB ==
    Scripted(2) /\ \E loc \in ValidLocations :
                       PPDefine(NameB, loc, GeneratedUsr(NameB, loc))

ScenarioIfndefB ==
    Scripted(3) /\ \E loc \in ValidLocations :
                       PPIfndef(NameB, loc, GeneratedUsr(NameB, loc))

ScenarioExpandA ==
    Scripted(4) /\ \E loc \in ValidLocations :
                       PPMacroExpands(NameA, loc, GeneratedUsr(NameA, loc))

ScenarioIncludeXH == Scripted(5) /\ \E file \in Files : PPInclusion(file)

ScenarioEndOfMainFile == Scripted(6) /\ PPEndOfMainFile({NameB})

ScenarioNext ==
    \/ ScenarioDefineA
    \/ ScenarioIfdefA
    \/ ScenarioDefineB
    \/ ScenarioIfndefB
    \/ ScenarioExpandA
    \/ ScenarioIncludeXH
    \/ ScenarioEndOfMainFile

ScenarioSpec == Init /\ [][ScenarioNext]_vars

----------------------------------------------------------------------------
(* Vocabulary of the properties *)

\* the names of a used-define sequence, in order
DefineNames(usedDefines) == [i \in 1..Len(usedDefines) |-> usedDefines[i].defineName]

\* the elements of a sequence
Range(seq) == {seq[i] : i \in 1..Len(seq)}

\* strictly ascending by name: sorted, and no name twice
StrictlySortedByName(usedDefines) ==
    \A i \in 1..Len(usedDefines), j \in 1..Len(usedDefines) :
        i < j => NameLess(usedDefines[i].defineName, usedDefines[j].defineName)

\* the identities that have a row in the Symbol Table
SymbolIds == {entry.symbolId : entry \in m_symbolEntries}

\* the identities that have an occurrence in the log
LoggedIds == {entry.symbolId : entry \in Range(m_sourceLocationEntries)}

\* the macro identity of a name: the macro info of its first definition
MacroIdentity(name) == macroDirectives[name][1].info

\* the occurrence kinds logged for an identity, in log order
OccurrenceKinds(identity) ==
    LET chosen == SelectSeq(m_sourceLocationEntries,
                            LAMBDA entry : entry.symbolId = identity)
    IN  [i \in 1..Len(chosen) |-> chosen[i].symbolType]

----------------------------------------------------------------------------
(* C1 *)

\* C1: after EndOfMainFile the final Used-Define sequence is strictly sorted by
\* name and holds no name twice, whatever events came before.
C1_FinalUsedDefinesStrictlySorted ==
    phase = "done" => StrictlySortedByName(m_usedDefines)

----------------------------------------------------------------------------
(* C2 *)

\* the part of the end-to-end expectation that is not about the used defines
ScenarioIndexed ==
    /\ OccurrenceKinds(MacroIdentity(NameA)) =
           <<"MacroDefinition", "MacroUsage", "MacroUsage">>
    /\ OccurrenceKinds(MacroIdentity(NameB)) = <<"MacroDefinition", "MacroUsage">>
    /\ SymbolIds = {MacroIdentity(NameA), MacroIdentity(NameB)}
    /\ m_sourceFiles = <<lastInclusion>>

\* C2 as stated: at the end of the scripted pass the final Used-Define sequence is
\* exactly [A], the log holds Definition, Usage, Usage for A and Definition, Usage
\* for B, the Symbol Table holds A and B, and the Included-File set is {x.h}.
C2_EndToEndAsStated ==
    ScenarioDone => DefineNames(m_usedDefines) = <<NameA>> /\ ScenarioIndexed

\* C2 amended: as stated, except that the final Used-Define sequence is [A, B]:
\* B is defined when it is tested, so it is a Confirmed used define, and the
\* header-guard filter only looks at the Tentative ones.
C2_EndToEndAmended ==
    ScenarioDone =>
        DefineNames(m_usedDefines) = <<NameA, NameB>> /\ ScenarioIndexed

\* the scripted pass has run to its end, B flagged as header guard
C2_Witness ==
    /\ ScenarioDone
    /\ m_usedDefines # <<>>
    /\ phase = "done"
    /\ headerGuards = {NameB}
    /\ lastInclusion \in Files


----------------------------------------------------------------------------
(* C3 *)

\* C3 as stated: an InclusionDirective that carries a resolved file while the
\* failure of the preceding resolution is pending (the skip flag is set: a
\* FileNotFound came after the latest InclusionDirective) adds exactly that file
\* to the Included-File set.
C3_RecoveredFileAddedAsStated ==
    [][\A file \in Files :
          (m_skipInclude /\ file \notin Range(m_sourceFiles) /\ PPInclusion(file))
              => m_sourceFiles' = Append(m_sourceFiles, file)]_vars

\* C3 amended: the InclusionDirective that follows a FileNotFound adds nothing to
\* the Included-File set, whatever file it carries, and clears the skip flag.
C3_RecoveredFileSuppressed ==
    [][\A file \in Files \cup {NullFile} :
          (m_skipInclude /\ PPInclusion(file))
              => m_sourceFiles' = m_sourceFiles /\ ~m_skipInclude']_vars

\* two callbacks were delivered, a FileNotFound and then an InclusionDirective with
\* a resolved file (delivered first, or after another InclusionDirective, that
\* file would be in the set), and the set is still empty
C3_Witness ==
    /\ events = 2
    /\ lastInclusion \in Files
    /\ m_sourceFiles = <<>>
    /\ ~m_skipInclude

----------------------------------------------------------------------------
(* C4 *)

\* C4: the Included-File set is sorted by file id in every reachable state.
C4_SourceFilesSorted ==
    \A i \in 1..Len(m_sourceFiles), j \in 1..Len(m_sourceFiles) :
        i < j => m_sourceFiles[i] <= m_sourceFiles[j]

----------------------------------------------------------------------------
(* C5 *)

NoDuplicateSourceFiles ==
    \A i \in 1..Len(m_sourceFiles), j \in 1..Len(m_sourceFiles) :
        i # j => m_sourceFiles[i] # m_sourceFiles[j]

\* C5: the Included-File set never holds a file id twice, and an InclusionDirective
\* for a file that is already in the set leaves the set as it is.
C5_SourceFilesDeduplicated ==
    /\ []NoDuplicateSourceFiles
    /\ [][\A file \in Files :
             (file \in Range(m_sourceFiles) /\ PPInclusion(file))
                 => m_sourceFiles' = m_sourceFiles]_vars

\* three callbacks, the latest InclusionDirective was for the file that entered the
\* set first, before the other file of the set: it was in the set already
C5_Witness ==
    /\ events = 3
    /\ Len(m_sourceFiles) = 2
    /\ lastInclusion = m_sourceFiles[1]
    /\ ~m_skipInclude

----------------------------------------------------------------------------
(* C6 *)

OneEntryPerIdentity ==
    \A first \in m_symbolEntries, second \in m_symbolEntries :
        first.symbolId = second.symbolId => first = second

\* C6: the Symbol Table holds at most one SymbolEntry per macro identity, and every
\* step, EndOfMainFile included, keeps every SymbolEntry it finds as it is.
C6_SymbolEntriesDeduplicated ==
    /\ []OneEntryPerIdentity
    /\ [][m_symbolEntries \subseteq m_symbolEntries']_vars

\* after the end of the pass: the latest occurrence in the log belongs to an
\* identity whose SymbolEntry has another canonical id than generateUSR returns at
\* that occurrence, so the entry is older than the occurrence and outlived it
C6_Witness ==
    /\ phase = "done"
    /\ m_sourceLocationEntries # <<>>
    /\ LET latest == m_sourceLocationEntries[Len(m_sourceLocationEntries)] IN
       \E entry \in m_symbolEntries :
           /\ entry.symbolId = latest.symbolId
           /\ entry.usr # GeneratedUsr(entry.symbolName,
                                       [isFileID |-> TRUE, fileId |-> latest.filePathId])

----------------------------------------------------------------------------
(* C7 *)

\* the macro a macro info belongs to
InfoName(macroInfo) == macroInfo[1]

\* C7: every occurrence in the log and every SymbolEntry carries the identity of
\* the earliest directive of the chain of the macro it belongs to, however often
\* the macro was redefined or undefined.
C7_IdentityStability ==
    /\ \A i \in 1..Len(m_sourceLocationEntries) :
          m_sourceLocationEntries[i].symbolId =
              MacroIdentity(InfoName(m_sourceLocationEntries[i].symbolId))
    /\ \A entry \in m_symbolEntries :
          entry.symbolId = MacroIdentity(entry.symbolName)

\* a macro with three directives (defined, undefined, defined again, or defined
\* three times, ...) and three occurrences logged under its one identity
C7_Witness ==
    \E name \in Names :
        /\ Len(macroDirectives[name]) = 3
        /\ Len(OccurrenceKinds(MacroIdentity(name))) = 3
        /\ Len(m_sourceLocationEntries) = 3

----------------------------------------------------------------------------
(* C8, C9 *)

\* a callback other than MacroDefined, for name at loc with the macro definition
\* and the generateUSR result given, that records an occurrence of symbolType
\* (the two calls that Ifndef, Ifdef, Defined and MacroExpands have in common are
\* tested once, before the four callbacks)
OccurrenceCallback(name, loc, macroDefinition, usr, symbolType) ==
    \/ /\ symbolType = "MacroUsage"
       /\ addUsedDefine(name, loc, macroDefinition)
       /\ addMacroAsSymbol(name, loc,
                           firstMacroInfo(macroDirectives[name],
                                          macroDefinition.localDirective),
                           symbolType, usr)
       /\ \/ Ifndef(name, loc, macroDirectives[name], macroDefinition, usr)
          \/ Ifdef(name, loc, macroDirectives[name], macroDefinition, usr)
          \/ Defined(name, loc, macroDirectives[name], macroDefinition, usr)
          \/ MacroExpands(name, loc, macroDirectives[name], macroDefinition, usr)
    \/ /\ symbolType = "MacroUndefinition"
       /\ MacroUndefined(name, loc, macroDirectives[name], macroDefinition, usr)

Occurrence(identity, loc, symbolType) ==
    [symbolId |-> identity, filePathId |-> loc.fileId, symbolType |-> symbolType]

\* C8: an occurrence with a resolvable identity and a valid file location for which
\* generateUSR returns nothing inserts no SymbolEntry and appends exactly one
\* occurrence, with the event's kind and location, to the log.
\* Stated of every step before the end of the file that leaves m_sourceFiles
\* alone, as every macro callback does.
C8_OccurrenceKeptWithoutUsr ==
    [][phase' = "collecting" /\ m_sourceFiles' = m_sourceFiles =>
       /\ \A name \in Names, loc \in ValidLocations,
             symbolType \in {"MacroUsage", "MacroUndefinition"} :
             \A macroDefinition \in MacroDefinitions(name) :
                 (/\ macroDefinition.localDirective # NullDirective
                  /\ OccurrenceCallback(name, loc, macroDefinition, NoUsr, symbolType))
                     => /\ m_symbolEntries' = m_symbolEntries
                        /\ m_sourceLocationEntries' =
                               Append(m_sourceLocationEntries,
                                      Occurrence(MacroIdentity(name), loc, symbolType))
       /\ macroDirectives' # macroDirectives =>
          \A name \in Names, loc \in ValidLocations :
             PPDefine(name, loc, NoUsr)
                 => /\ m_symbolEntries' = m_symbolEntries
                    /\ m_sourceLocationEntries' =
                           Append(m_sourceLocationEntries,
                                  Occurrence(macroDirectives'[name][1].info, loc,
                                             "MacroDefinition"))]_vars

\* one occurrence is logged and its identity has no SymbolEntry: generateUSR
\* returned nothing at an occurrence with an identity and a valid location
C8_Witness ==
    /\ Len(m_sourceLocationEntries) = 1
    /\ m_sourceLocationEntries[1].symbolId \notin SymbolIds

\* C9 as stated: an identity that has an occurrence but no SymbolEntry (generation
\* failed at its first occurrence) gets no SymbolEntry in any later step.
C9_NoRetryAsStated ==
    [][\A identity \in LoggedIds :
          identity \notin SymbolIds => identity \notin SymbolIds']_vars

\* C9 amended: generateUSR is called at every occurrence (valid file location,
\* resolvable identity) of an identity that has no SymbolEntry yet, also when
\* earlier occurrences of it are logged: the entry is inserted when it returns a
\* canonical id, and no entry is inserted when it returns nothing.
\* Stated of every step before the end of the file that leaves m_sourceFiles
\* alone, as every macro callback does.
C9_RetryUntilGenerated ==
    [][phase' = "collecting" /\ m_sourceFiles' = m_sourceFiles =>
       /\ \A name \in Names, loc \in ValidLocations,
             symbolType \in {"MacroUsage", "MacroUndefinition"} :
             \A macroDefinition \in MacroDefinitions(name), usr \in Usrs(name, loc) :
                 (/\ macroDefinition.localDirective # NullDirective
                  /\ MacroIdentity(name) \in LoggedIds \ SymbolIds
                  /\ OccurrenceCallback(name, loc, macroDefinition, usr, symbolType))
                     => m_symbolEntries' =
                            IF usr = NoUsr
                            THEN m_symbolEntries
                            ELSE m_symbolEntries \cup
                                    {[symbolId |-> MacroIdentity(name), usr |-> usr,
                                      symbolName |-> name]}
       /\ macroDirectives' # macroDirectives =>
          \A name \in Names, loc \in ValidLocations :
           \A usr \in Usrs(name, loc) :
             (/\ macroDirectives[name] # <<>>
              /\ MacroIdentity(name) \in LoggedIds \ SymbolIds
              /\ PPDefine(name, loc, usr))
                 => m_symbolEntries' =
                        IF usr = NoUsr
                        THEN m_symbolEntries
                        ELSE m_symbolEntries \cup
                                {[symbolId |-> MacroIdentity(name), usr |-> usr,
                                  symbolName |-> name]}]_vars

\* a SymbolEntry whose canonical id is not the one of the first occurrence of its
\* identity: generation failed there and succeeded at a later occurrence
C9_Witness ==
    \E entry \in m_symbolEntries :
        \E i \in 1..Len(m_sourceLocationEntries) :
            /\ m_sourceLocationEntries[i].symbolId = entry.symbolId
            /\ \A j \in 1..(i - 1) :
                  m_sourceLocationEntries[j].symbolId # entry.symbolId
            /\ GeneratedUsr(entry.symbolName,
                            [isFileID |-> TRUE,
                             fileId |-> m_sourceLocationEntries[i].filePathId])
                   # entry.usr

----------------------------------------------------------------------------
(* C10 *)

\* C10: a name that is flagged as header guard at the end of the file and was only
\* tested while it was not defined (it is no Confirmed used define) is not in
\* the final Used-Define sequence.
C10_HeaderGuardExcluded ==
    phase = "done" =>
        \A name \in headerGuards :
            name \notin Range(DefineNames(beforeEnd.usedDefines))
                => name \notin Range(DefineNames(m_usedDefines))

\* the pass was: a test of a name that was not defined, then its definition, then
\* the end of the file with the name flagged; the name is not a used define
C10_Witness ==
    /\ phase = "done"
    /\ events = 2
    /\ \E name \in headerGuards :
          /\ Len(macroDirectives[name]) = 1
          /\ name \in Range(DefineNames(beforeEnd.maybeUsedDefines))
          /\ m_usedDefines = <<>>


----------------------------------------------------------------------------
(* C11 *)

\* the entries that EndOfMainFile hands to the export filter: the Confirmed ones
\* it found and the Tentative ones the header-guard filter kept
OfferedToExportFilter ==
    Range(beforeEnd.usedDefines) \cup Range(m_maybeUsedDefines)

\* C11: after EndOfMainFile no entry of the final Used-Define sequence has a name
\* that contains EXPORT, whether it was a Confirmed or a Tentative entry, and
\* every entry whose name does not contain EXPORT is still there.
C11_ExportsExcluded ==
    phase = "done" =>
        /\ \A usedDefine \in Range(m_usedDefines) :
              ~Contains(usedDefine.defineName, ExportLiteral)
        /\ \A usedDefine \in OfferedToExportFilter :
              ~Contains(usedDefine.defineName, ExportLiteral)
                  => usedDefine \in Range(m_usedDefines)

\* the pass ended with A_EXPORT among the Confirmed used defines (it was defined
\* and then referenced) and A among the final ones
C11_Witness ==
    /\ phase = "done"
    /\ NameAExport \in Range(DefineNames(beforeEnd.usedDefines))
    /\ NameA \in Range(DefineNames(m_usedDefines))

----------------------------------------------------------------------------
(* C12 *)

\* a callback for name at loc that is handed no directive chain: the macro
\* definition has a null local directive, MacroDefined a null directive
IdentityLessCallback(name, loc, usr) ==
    LET macroDefinition == [macroInfo |-> NoMacroInfo, localDirective |-> NullDirective]
    IN  \/ Ifndef(name, loc, macroDirectives[name], macroDefinition, usr)
        \/ Ifdef(name, loc, macroDirectives[name], macroDefinition, usr)
        \/ Defined(name, loc, macroDirectives[name], macroDefinition, usr)
        \/ MacroExpands(name, loc, macroDirectives[name], macroDefinition, usr)
        \/ MacroUndefined(name, loc, macroDirectives[name], macroDefinition, usr)
        \/ MacroDefined(name, loc, macroDirectives[name], NullDirective, usr)

\* C12: a test, expansion, definition or undefinition that comes without a
\* directive chain leaves the Symbol Table and the occurrence log as they are,
\* wherever the name token is and whatever generateUSR would return.  (Stated as:
\* no step that changes the table or the log is such a callback.)
C12_IdentityLessDropped ==
    [][(m_symbolEntries' # m_symbolEntries
           \/ m_sourceLocationEntries' # m_sourceLocationEntries)
          => \A name \in Names, loc \in SourceLocations :
                 \A usr \in Usrs(name, loc) : ~IdentityLessCallback(name, loc, usr)]_vars

\* one callback was delivered, a test of a name that was never defined, at a file
\* location of a valid file (the Tentative entry has the file): nothing is logged
C12_Witness ==
    /\ events = 1
    /\ Len(m_maybeUsedDefines) = 1
    /\ IsValid(m_maybeUsedDefines[1].filePathId)
    /\ macroDirectives[m_maybeUsedDefines[1].defineName] = <<>>
    /\ m_symbolEntries = {}
    /\ m_sourceLocationEntries = <<>>

----------------------------------------------------------------------------
(* C13 *)

\* C13: the step that ends the pass (EndOfMainFile) leaves the Symbol Table, the
\* occurrence log, the Included-File set and the skip flag as it found them.
C13_FinalizationFrame ==
    [][(phase = "collecting" /\ phase' = "done")
          => UNCHANGED <<m_symbolEntries, m_sourceLocationEntries, m_sourceFiles,
                         m_skipInclude>>]_vars

\* the pass has ended with a SymbolEntry, an occurrence and a file collected and
\* the skip flag set: all four were there for EndOfMainFile to leave alone
C13_Witness ==
    /\ phase = "done"
    /\ m_symbolEntries # {}
    /\ m_sourceLocationEntries # <<>>
    /\ m_sourceFiles # <<>>
    /\ m_skipInclude

----------------------------------------------------------------------------
(* C14 *)

\* the names of a used-define sequence, as a set
NameSet(usedDefines) == Range(DefineNames(usedDefines))

\* C14: an ifdef, ifndef or defined() test or an expansion of a name offers the
\* name to the Confirmed set, and leaves the Tentative set as it is, when the
\* macro definition it is handed has macro info; otherwise it offers the name to
\* the Tentative set and leaves the Confirmed set as it is.  Wherever the name
\* token is and whatever generateUSR returns.  (Stated as: a step that does not
\* change the sets so is none of these callbacks; addUsedDefine, the first call of
\* each of them, is tested first.)
C14_Classification ==
    [][phase' = "collecting" /\ m_sourceFiles' = m_sourceFiles =>
       \A name \in Names :
          \A macroDefinition \in MacroDefinitions(name) :
             \/ IF macroDefinition.macroInfo # NoMacroInfo
                THEN /\ NameSet(m_usedDefines') = NameSet(m_usedDefines) \cup {name}
                     /\ m_maybeUsedDefines' = m_maybeUsedDefines
                ELSE /\ NameSet(m_maybeUsedDefines') =
                            NameSet(m_maybeUsedDefines) \cup {name}
                     /\ m_usedDefines' = m_usedDefines
             \/ \A loc \in SourceLocations :
                   \/ ~addUsedDefine(name, loc, macroDefinition)
                   \/ \A usr \in Usrs(name, loc) :
                         ~OccurrenceCallback(name, loc, macroDefinition, usr,
                                             "MacroUsage")]_vars

\* three callbacks: a name was defined and then tested or expanded, another name
\* was tested without ever being defined; each is in its own working set only
C14_Witness ==
    /\ phase = "collecting"
    /\ events = 3
    /\ Len(m_usedDefines) = 1
    /\ Len(m_maybeUsedDefines) = 1
    /\ IsDefined(m_usedDefines[1].defineName)
    /\ macroDirectives[m_maybeUsedDefines[1].defineName] = <<>>

----------------------------------------------------------------------------
(* C15 *)

WorkingSetsStrictlySorted ==
    phase = "collecting" =>
        /\ StrictlySortedByName(m_usedDefines)
        /\ StrictlySortedByName(m_maybeUsedDefines)

\* C15: before the end of the file the Confirmed and the Tentative set are both
\* strictly sorted by name, so hold no name twice, after every event; and a test
\* or expansion of a name that is already in the set it is offered to leaves both
\* sets as they are.
C15_WorkingSetsSorted ==
    /\ []WorkingSetsStrictlySorted
    /\ [][phase' = "collecting" /\ m_sourceFiles' = m_sourceFiles =>
          \A name \in Names :
             \A macroDefinition \in MacroDefinitions(name) :
                \/ name \notin NameSet(IF macroDefinition.macroInfo # NoMacroInfo
                                       THEN m_usedDefines
                                       ELSE m_maybeUsedDefines)
                \/ UNCHANGED <<m_usedDefines, m_maybeUsedDefines>>
                \/ \A loc \in SourceLocations :
                      \/ ~addUsedDefine(name, loc, macroDefinition)
                      \/ \A usr \in Usrs(name, loc) :
                            ~OccurrenceCallback(name, loc, macroDefinition, usr,
                                                "MacroUsage")]_vars

\* three callbacks, the definition of a macro and two tests or expansions of it
\* (two usages are logged under one identity): the Confirmed set, offered the
\* name twice, holds it once
C15_Witness ==
    /\ phase = "collecting"
    /\ events = 3
    /\ Len(m_sourceLocationEntries) = 3
    /\ m_sourceLocationEntries[2].symbolType = "MacroUsage"
    /\ m_sourceLocationEntries[3].symbolType = "MacroUsage"
    /\ m_sourceLocationEntries[2].symbolId = m_sourceLocationEntries[3].symbolId
    /\ Len(m_usedDefines) = 1
    /\ m_maybeUsedDefines = <<>>

----------------------------------------------------------------------------
(* C16 *)

\* C16: a Tentative entry whose name has no macro info when the file ends (the
\* macro is not defined then) is kept by the header-guard filter, and is in the
\* final Used-Define sequence unless its name contains EXPORT.
C16_UnknownMacroKept ==
    phase = "done" =>
        \A usedDefine \in Range(beforeEnd.maybeUsedDefines) :
            ~IsDefined(usedDefine.defineName)
                => /\ usedDefine \in Range(m_maybeUsedDefines)
                   /\ ~Contains(usedDefine.defineName, ExportLiteral)
                          => usedDefine \in Range(m_usedDefines)

\* the pass ended with a Tentative entry of a macro that is not defined, and with
\* another macro flagged as header guard; the entry is in the final sequence
C16_Witness ==
    /\ phase = "done"
    /\ headerGuards # {}
    /\ \E usedDefine \in Range(beforeEnd.maybeUsedDefines) :
          /\ ~IsDefined(usedDefine.defineName)
          /\ usedDefine \in Range(m_usedDefines)

----------------------------------------------------------------------------
(* C17 *)

\* the entries of a used-define sequence that have the name, in order
EntriesNamed(usedDefines, name) ==
    SelectSeq(usedDefines, LAMBDA usedDefine : usedDefine.defineName = name)

\* C17: for a name (without EXPORT) that is in the Confirmed set and in the
\* header-guard-filtered Tentative set when the file ends, the final Used-Define
\* sequence holds one entry, the Confirmed one with its location.
C17_ConfirmedLocationWins ==
    phase = "done" =>
        \A name \in NameSet(beforeEnd.usedDefines) \cap NameSet(m_maybeUsedDefines) :
            ~Contains(name, ExportLiteral)
                => EntriesNamed(m_usedDefines, name) =
                       EntriesNamed(beforeEnd.usedDefines, name)

----------------------------------------------------------------------------
(* C18 *)

\* C18: after EndOfMainFile the names of the final Used-Define sequence are the
\* names that were Confirmed, and the names that were Tentative and are not
\* flagged as header guard at the end of the file, without those that contain
\* EXPORT; no other name.
C18_FinalContent ==
    phase = "done" =>
        NameSet(m_usedDefines) =
            {name \in NameSet(beforeEnd.usedDefines)
                         \cup (NameSet(beforeEnd.maybeUsedDefines) \ headerGuards) :
                ~Contains(name, ExportLiteral)}

\* the pass ended with Confirmed and Tentative entries, a name was removed by one
\* of the filters and another name is in the final sequence
C18_Witness ==
    /\ phase = "done"
    /\ beforeEnd.usedDefines # <<>>
    /\ beforeEnd.maybeUsedDefines # <<>>
    /\ m_usedDefines # <<>>
    /\ NameSet(m_usedDefines) #
           NameSet(beforeEnd.usedDefines) \cup NameSet(beforeEnd.maybeUsedDefines)

----------------------------------------------------------------------------
(* C19 *)

\* C19: the skip flag is false after every InclusionDirective; set by a
\* FileNotFound (by one, or by several in a row, alike), it makes the next
\* InclusionDirective add nothing, and the InclusionDirective after that, which
\* finds it false, adds its file; only InclusionDirective and FileNotFound
\* change the flag, so the macro callbacks and EndOfMainFile leave it as it is.
C19_SkipFlagProtocol ==
    [][/\ \A file \in Files \cup {NullFile} :
             PPInclusion(file)
                 => /\ ~m_skipInclude'
                    /\ m_skipInclude => m_sourceFiles' = m_sourceFiles
                    /\ (~m_skipInclude /\ file \in Files \ Range(m_sourceFiles))
                           => m_sourceFiles' = Append(m_sourceFiles, file)
       /\ PPFileNotFound => m_skipInclude'
       /\ m_skipInclude' # m_skipInclude
             => \/ PPFileNotFound
                \/ \E file \in Files \cup {NullFile} : PPInclusion(file)]_vars

\* three callbacks, among them a macro callback that logged an occurrence, a
\* FileNotFound and, after it, an InclusionDirective with a resolved file: the
\* file was not added and the flag is false again
C19_Witness ==
    /\ events = 3
    /\ Len(m_sourceLocationEntries) = 1
    /\ lastInclusion \in Files
    /\ m_sourceFiles = <<>>
    /\ ~m_skipInclude

----------------------------------------------------------------------------
(* C20 *)

\* C20: FileNotFound returns true to the preprocessor and changes nothing but the
\* skip flag, which it sets; and an InclusionDirective that has no resolved file
\* adds nothing to the Included-File set.
C20_InclusionFailureAbsorbed ==
    [][/\ \A result \in BOOLEAN :
             FileNotFound(result)
                 => /\ result
                    /\ m_skipInclude'
                    /\ UNCHANGED <<m_sourceFiles, m_symbolEntries,
                                   m_sourceLocationEntries, m_usedDefines,
                                   m_maybeUsedDefines>>
       /\ PPInclusion(NullFile) => m_sourceFiles' = m_sourceFiles]_vars

\* two callbacks, an InclusionDirective that added a file and then a FileNotFound
\* (the flag is set): the file is still the only thing collected
C20_Witness ==
    /\ events = 2
    /\ m_skipInclude
    /\ m_sourceFiles = <<lastInclusion>>
    /\ m_symbolEntries = {}
    /\ m_sourceLocationEntries = <<>>
    /\ m_usedDefines = <<>>
    /\ m_maybeUsedDefines = <<>>

----------------------------------------------------------------------------
(* C21 *)

\* the log after a step is the log before it, or that with one entry at its end
AtMostOneAppended ==
    \/ m_sourceLocationEntries' = m_sourceLocationEntries
    \/ /\ Len(m_sourceLocationEntries') = Len(m_sourceLocationEntries) + 1
       /\ SubSeq(m_sourceLocationEntries', 1, Len(m_sourceLocationEntries)) =
              m_sourceLocationEntries

\* C21: every step leaves the occurrence log as it is or appends one entry at its
\* end, and an event whose occurrence (identity, location, kind) is in the log
\* already appends it once more.  (The second part is stated as: a step that does
\* not append the occurrence is no callback that has it.)
C21_LogAppendOnly ==
    [][/\ AtMostOneAppended
       /\ phase' = "collecting" /\ m_sourceFiles' = m_sourceFiles =>
          \A name \in {n \in Names : macroDirectives[n] # <<>>}, loc \in ValidLocations :
             /\ \A symbolType \in {"MacroUsage", "MacroUndefinition"} :
                   LET occurrence == Occurrence(MacroIdentity(name), loc, symbolType) IN
                   \/ occurrence \notin Range(m_sourceLocationEntries)
                   \/ m_sourceLocationEntries' =
                          Append(m_sourceLocationEntries, occurrence)
                   \/ \A macroDefinition \in MacroDefinitions(name),
                         usr \in Usrs(name, loc) :
                         \/ macroDefinition.localDirective = NullDirective
                         \/ ~OccurrenceCallback(name, loc, macroDefinition, usr,
                                                symbolType)
             /\ LET occurrence == Occurrence(MacroIdentity(name), loc,
                                             "MacroDefinition") IN
                \/ occurrence \notin Range(m_sourceLocationEntries)
                \/ m_sourceLocationEntries' =
                       Append(m_sourceLocationEntries, occurrence)
                \/ macroDirectives' = macroDirectives
                \/ \A usr \in Usrs(name, loc) : ~PPDefine(name, loc, usr)]_vars

\* the log holds the same occurrence twice, one after the other
C21_Witness ==
    /\ Len(m_sourceLocationEntries) = 2
    /\ m_sourceLocationEntries[1] = m_sourceLocationEntries[2]

----------------------------------------------------------------------------
(* C22 *)

UsedDefineTrackingUnchanged ==
    UNCHANGED <<m_usedDefines, m_maybeUsedDefines, m_sourceFiles, m_skipInclude>>

\* the log after a callback that records the occurrence, which it does when the
\* name token is at a file location of a valid file
LogWith(occurrence, loc) ==
    IF loc \in ValidLocations
    THEN Append(m_sourceLocationEntries, occurrence)
    ELSE m_sourceLocationEntries

\* C22: MacroDefined appends one Definition occurrence and MacroUndefined, handed
\* a directive chain, one Undefinition occurrence, each keyed by the earliest
\* directive of the chain as it is then and each for a name token at a file
\* location of a valid file (elsewhere, or without a chain, none is appended);
\* and both leave the Confirmed set, the Tentative set, the Included-File set
\* and the skip flag as they are, always.  (Stated as: a step that does otherwise
\* is none of these callbacks.)
C22_DefinitionFrame ==
    [][phase' = "collecting" =>
       \A name \in Names, loc \in SourceLocations :
          /\ \A macroDefinition \in MacroDefinitions(name) :
                \/ /\ UsedDefineTrackingUnchanged
                   /\ m_sourceLocationEntries' =
                          IF macroDefinition.localDirective # NullDirective
                          THEN LogWith(Occurrence(MacroIdentity(name), loc,
                                                  "MacroUndefinition"), loc)
                          ELSE m_sourceLocationEntries
                \/ \A usr \in Usrs(name, loc) :
                      ~MacroUndefined(name, loc, macroDirectives[name],
                                      macroDefinition, usr)
          /\ \/ macroDirectives'[name] = macroDirectives[name]
             \/ /\ UsedDefineTrackingUnchanged
                /\ m_sourceLocationEntries' =
                       LogWith(Occurrence(macroDirectives'[name][1].info, loc,
                                          "MacroDefinition"), loc)
             \/ \A usr \in Usrs(name, loc) : ~PPDefine(name, loc, usr)]_vars

\* two callbacks, the definition of a macro and its undefinition: both are
\* logged under one identity and nothing else is collected
C22_Witness ==
    /\ events = 2
    /\ Len(m_sourceLocationEntries) = 2
    /\ m_sourceLocationEntries[1].symbolType = "MacroDefinition"
    /\ m_sourceLocationEntries[2].symbolType = "MacroUndefinition"
    /\ m_sourceLocationEntries[1].symbolId = m_sourceLocationEntries[2].symbolId
    /\ m_usedDefines = <<>>
    /\ m_maybeUsedDefines = <<>>
    /\ m_sourceFiles = <<>>
    /\ ~m_skipInclude

----------------------------------------------------------------------------
(* C23 *)

\* C23: an ifdef, ifndef or defined() test of a macro that was defined and then
\* undefined, handed a macro definition without macro info but with the directive
\* chain, offers the name to the Tentative set, leaves the Confirmed set as it
\* is, and appends a Usage occurrence keyed by the macro's earliest definition
\* (for a name token at a file location of a valid file).  (Stated as: a step
\* that does otherwise is none of these tests.)
C23_TestAfterUndefinition ==
    [][phase' = "collecting" /\ m_sourceFiles' = m_sourceFiles =>
       \A name \in {n \in Names : macroDirectives[n] # <<>> /\ ~IsDefined(n)} :
          LET macroDefinition == [macroInfo |-> NoMacroInfo,
                                  localDirective |-> Len(macroDirectives[name])]
          IN  \A loc \in SourceLocations :
                 \/ /\ m_usedDefines' = m_usedDefines
                    /\ NameSet(m_maybeUsedDefines') =
                           NameSet(m_maybeUsedDefines) \cup {name}
                    /\ m_sourceLocationEntries' =
                           LogWith(Occurrence(MacroIdentity(name), loc, "MacroUsage"),
                                   loc)
                 \/ ~addUsedDefine(name, loc, macroDefinition)
                 \/ \A usr \in Usrs(name, loc) :
                       /\ ~Ifndef(name, loc, macroDirectives[name], macroDefinition, usr)
                       /\ ~Ifdef(name, loc, macroDirectives[name], macroDefinition, usr)
                       /\ ~Defined(name, loc, macroDirectives[name], macroDefinition,
                                   usr)]_vars

\* three callbacks, the definition of a macro, its undefinition and a test of it:
\* the three are logged under one identity, the name is a Tentative used define
C23_Witness ==
    /\ events = 3
    /\ Len(m_sourceLocationEntries) = 3
    /\ m_sourceLocationEntries[1].symbolType = "MacroDefinition"
    /\ m_sourceLocationEntries[2].symbolType = "MacroUndefinition"
    /\ m_sourceLocationEntries[3].symbolType = "MacroUsage"
    /\ m_sourceLocationEntries[1].symbolId = m_sourceLocationEntries[2].symbolId
    /\ m_sourceLocationEntries[1].symbolId = m_sourceLocationEntries[3].symbolId
    /\ m_usedDefines = <<>>
    /\ NameSet(m_maybeUsedDefines) = {InfoName(m_sourceLocationEntries[3].symbolId)}

----------------------------------------------------------------------------
(* C24 *)

EveryEntryLogged == SymbolIds \subseteq LoggedIds

\* C24: every identity that has a SymbolEntry has an occurrence in the log, in
\* every reachable state, and a step that inserts a SymbolEntry appends an
\* occurrence of the identity of that entry.
C24_EntryHasOccurrence ==
    /\ []EveryEntryLogged
    /\ [][\A identity \in SymbolIds' \ SymbolIds :
             /\ Len(m_sourceLocationEntries') = Len(m_sourceLocationEntries) + 1
             /\ m_sourceLocationEntries'[Len(m_sourceLocationEntries')].symbolId =
                    identity]_vars

\* an identity has a SymbolEntry and occurrences, another identity has an
\* occurrence and no SymbolEntry: the converse does not hold
C24_Witness ==
    /\ SymbolIds # {}
    /\ LoggedIds \ SymbolIds # {}

----------------------------------------------------------------------------
(* C25 *)

\* the locations that are no file location, or are one of no valid file
UnindexedLocations == SourceLocations \ ValidLocations

\* C25: an event whose name token is not at a file location, or is at one with an
\* invalid file id, appends no occurrence and inserts no SymbolEntry, whatever
\* generateUSR would return (its result is not used) and whether or not the
\* macro has an identity; a test or expansion still offers the name to its
\* working set.  (Stated as: a step that changes the table or the log, or that
\* leaves the name out of the set, is no such event.)
C25_LocationGuard ==
    [][phase' = "collecting" /\ m_sourceFiles' = m_sourceFiles =>
       \A name \in Names, loc \in UnindexedLocations :
          /\ (m_symbolEntries' # m_symbolEntries
                 \/ m_sourceLocationEntries' # m_sourceLocationEntries)
                => \A usr \in Usrs(name, loc) :
                      /\ ~PPDefine(name, loc, usr)
                      /\ \A macroDefinition \in MacroDefinitions(name) :
                            /\ ~OccurrenceCallback(name, loc, macroDefinition, usr,
                                                   "MacroUsage")
                            /\ ~OccurrenceCallback(name, loc, macroDefinition, usr,
                                                   "MacroUndefinition")
          /\ \A macroDefinition \in MacroDefinitions(name) :
                \/ name \in NameSet(IF macroDefinition.macroInfo # NoMacroInfo
                                    THEN m_usedDefines'
                                    ELSE m_maybeUsedDefines')
                \/ ~addUsedDefine(name, loc, macroDefinition)
                \/ \A usr \in Usrs(name, loc) :
                      ~OccurrenceCallback(name, loc, macroDefinition, usr,
                                          "MacroUsage")]_vars

\* two callbacks, the definition of a macro, logged, and a test or expansion of
\* it at a location without valid file id: the name is a Confirmed used define
\* with that location, and the log has the definition only
C25_Witness ==
    /\ events = 2
    /\ Len(m_sourceLocationEntries) = 1
    /\ m_sourceLocationEntries[1].symbolType = "MacroDefinition"
    /\ Len(m_usedDefines) = 1
    /\ ~IsValid(m_usedDefines[1].filePathId)
    /\ m_usedDefines[1].defineName = InfoName(m_sourceLocationEntries[1].symbolId)

====
